---- MODULE Spec2Model ----
(***************************************************************************)
(* Model of examples/python_client/client.py: the run() function of the   *)
(* Graph-Loom demonstration client.  One run opens a channel, builds one  *)
(* QueryRequest, issues one unary Execute call and prints the response.   *)
(* Each statement of run() is one action; `out` is the sequence of print  *)
(* calls made so far, `reads` the sequence of response fields accessed.   *)
(***************************************************************************)
EXTENDS Integers, Sequences, FiniteSets, TLC

VARIABLES pc, channel, request, received, exc, out, reads, calls, i

vars == <<pc, channel, request, received, exc, out, reads, calls, i>>

(* ---------------------------- bounds ----------------------------------- *)

MaxRows == 2

MaxCount == 1

(* ------------------------ message data model --------------------------- *)

\* map<string,string> values carried by nodes and relationships, as
\* sequences of <<key, value>> pairs with unique keys
Metadatas == { <<>>, << <<"name", "github">> >> }

Nodes == [id : {"1"}, label : {"Note"}, metadata : Metadatas]

Relationships ==
    [id : {"7"}, from_id : {"1"}, to_id : {"2"}, label : {"LINKS"},
     metadata : {<<>>}]

Infos == {"count: 3"}

\* protobuf default values of the three members of the oneof
DefaultNode == [id |-> "", label |-> "", metadata |-> <<>>]

DefaultRelationship ==
    [id |-> "", from_id |-> "", to_id |-> "", label |-> "", metadata |-> <<>>]

\* Row: a oneof over node / relationship / info; `which` is the member that
\* is set ("none" when no member is set), the others read as defaults
Rows ==
    { [which |-> "none", node |-> DefaultNode,
       relationship |-> DefaultRelationship, info |-> ""] }
    \cup { [which |-> "node", node |-> n,
            relationship |-> DefaultRelationship, info |-> ""] : n \in Nodes }
    \cup { [which |-> "relationship", node |-> DefaultNode,
            relationship |-> r, info |-> ""] : r \in Relationships }
    \cup { [which |-> "info", node |-> DefaultNode,
            relationship |-> DefaultRelationship, info |-> s] : s \in Infos }

RowSeqs == UNION { [1..n -> Rows] : n \in 0..MaxRows }

Errors == {"", "syntax error"}

\* every QueryResponse a server may send, well formed or not
QueryResponses ==
    [error : Errors, affected_nodes : 0..MaxCount,
     affected_relationships : 0..MaxCount, mutated : BOOLEAN,
     rows : RowSeqs]

\* transport faults raised by the stub
RpcErrors ==
    { [code |-> "StatusCode.UNAVAILABLE",
       details |-> "failed to connect to all addresses"],
      [code |-> "StatusCode.DEADLINE_EXCEEDED",
       details |-> "Deadline Exceeded"] }

NoRequest == [query |-> "", params |-> <<>>, log |-> FALSE]

NoException == [code |-> "", details |-> ""]

(* --------------------------- pure helpers ------------------------------ *)

\* row.HasField(name)
HasField(row, name) == row.which = name

\* truth value of a Python str
Truthy(s) == s # ""

Digit(d) ==
    CASE d = 0 -> "0" [] d = 1 -> "1" [] d = 2 -> "2" [] d = 3 -> "3"
      [] d = 4 -> "4" [] d = 5 -> "5" [] d = 6 -> "6" [] d = 7 -> "7"
      [] d = 8 -> "8" [] d = 9 -> "9"

\* f"{n}" for a non-negative int
RECURSIVE StrInt(_)
StrInt(n) == IF n < 10 THEN Digit(n) ELSE StrInt(n \div 10) \o Digit(n % 10)

\* f"{b}" for a bool
StrBool(b) == IF b THEN "True" ELSE "False"

\* f"{dict(m)}" for a map<string,string>
RECURSIVE DictItems(_)
DictItems(m) ==
    IF m = <<>> THEN ""
    ELSE "'" \o m[1][1] \o "': '" \o m[1][2] \o "'"
         \o (IF Len(m) > 1 THEN ", " ELSE "") \o DictItems(Tail(m))

DictRepr(m) == "{" \o DictItems(m) \o "}"

\* one print call: the literal label of the f-string, the formatted rest,
\* and whether the text starts with a newline (a blank line before it)
Line(tag, text) == [blank |-> FALSE, tag |-> tag, text |-> text]

ResultsHeader == [blank |-> TRUE, tag |-> "Results:", text |-> ""]

\* the request constructed by run()
QueryRequest(query, params, log) ==
    [query |-> query, params |-> params, log |-> log]

\* the response local of run(), once Execute has returned
response == received[1]

(* ------------------------------ Init ----------------------------------- *)

Init ==
    /\ pc = "start"
    /\ channel = ""
    /\ request = NoRequest
    /\ received = <<>>
    /\ exc = NoException
    /\ out = <<>>
    /\ reads = <<>>
    /\ calls = 0
    /\ i = 0

(* ----------------------------- actions --------------------------------- *)

\* channel = grpc.insecure_channel(...); stub = GraphQueryStub(channel)
Connect ==
    /\ pc = "start"
    /\ channel' = "localhost:50051"
    /\ pc' = "prepare"
    /\ UNCHANGED <<request, received, exc, out, reads, calls, i>>

\* variant: the log flag is left at its default
BuildRequest_NoLog ==
    /\ pc = "prepare"
    /\ request' = QueryRequest("CREATE (TEST:Note:URL {name: 'github'});",
                               <<>>, FALSE)
    /\ pc' = "call"
    /\ UNCHANGED <<channel, received, exc, out, reads, calls, i>>

\* query = ...; params = {}; request = QueryRequest(query, params, log=True)
BuildRequest ==
    /\ pc = "prepare"
    /\ request' = QueryRequest("CREATE (TEST:Note:URL {name: 'github'});",
                               <<>>, TRUE)
    /\ pc' = "call"
    /\ UNCHANGED <<channel, received, exc, out, reads, calls, i>>

\* response = stub.Execute(request), the call returns a response
ExecuteReturns ==
    /\ pc = "call"
    /\ \E resp \in QueryResponses : received' = Append(received, resp)
    /\ calls' = calls + 1
    /\ pc' = "check"
    /\ UNCHANGED <<channel, request, exc, out, reads, i>>

\* response = stub.Execute(request), the call raises grpc.RpcError
ExecuteRaises ==
    /\ pc = "call"
    /\ \E e \in RpcErrors : exc' = e
    /\ calls' = calls + 1
    /\ pc' = "except"
    /\ UNCHANGED <<channel, request, received, out, reads, i>>

\* variant: the return after the Server Error line is missing
CheckError_NoReturn ==
    /\ pc = "check"
    /\ IF Truthy(response.error)
       THEN /\ out' = Append(out, Line("Server Error:", response.error))
            /\ reads' = reads \o <<"error", "error">>
       ELSE /\ out' = out
            /\ reads' = Append(reads, "error")
    /\ pc' = "affected_nodes"
    /\ UNCHANGED <<channel, request, received, exc, calls, i>>

\* variant: the test is inverted (if not response.error)
CheckError_Inverted ==
    /\ pc = "check"
    /\ IF ~Truthy(response.error)
       THEN /\ out' = Append(out, Line("Server Error:", response.error))
            /\ reads' = reads \o <<"error", "error">>
            /\ pc' = "done"
       ELSE /\ out' = out
            /\ reads' = Append(reads, "error")
            /\ pc' = "affected_nodes"
    /\ UNCHANGED <<channel, request, received, exc, calls, i>>

\* if response.error: print(f"Server Error: {response.error}"); return
CheckError ==
    /\ pc = "check"
    /\ IF Truthy(response.error)
       THEN /\ out' = Append(out, Line("Server Error:", response.error))
            /\ reads' = reads \o <<"error", "error">>
            /\ pc' = "done"
       ELSE /\ out' = out
            /\ reads' = Append(reads, "error")
            /\ pc' = "affected_nodes"
    /\ UNCHANGED <<channel, request, received, exc, calls, i>>

\* print(f"Affected Nodes: {response.affected_nodes}")
PrintAffectedNodes ==
    /\ pc = "affected_nodes"
    /\ out' = Append(out, Line("Affected Nodes:",
                               StrInt(response.affected_nodes)))
    /\ reads' = Append(reads, "affected_nodes")
    /\ pc' = "affected_relationships"
    /\ UNCHANGED <<channel, request, received, exc, calls, i>>

\* print(f"Affected Relationships: {response.affected_relationships}")
PrintAffectedRelationships ==
    /\ pc = "affected_relationships"
    /\ out' = Append(out, Line("Affected Relationships:",
                               StrInt(response.affected_relationships)))
    /\ reads' = Append(reads, "affected_relationships")
    /\ pc' = "mutated"
    /\ UNCHANGED <<channel, request, received, exc, calls, i>>

\* variant: the flag is derived from the counters instead of being read
PrintMutated_Derived ==
    /\ pc = "mutated"
    /\ out' = Append(out, Line("Mutated:",
                 StrBool(response.affected_nodes
                         + response.affected_relationships > 0)))
    /\ reads' = Append(reads, "mutated")
    /\ pc' = "results"
    /\ UNCHANGED <<channel, request, received, exc, calls, i>>

\* print(f"Mutated: {response.mutated}")
PrintMutated ==
    /\ pc = "mutated"
    /\ out' = Append(out, Line("Mutated:", StrBool(response.mutated)))
    /\ reads' = Append(reads, "mutated")
    /\ pc' = "results"
    /\ UNCHANGED <<channel, request, received, exc, calls, i>>

\* variant: the Results header is not printed
PrintResults_Silent ==
    /\ pc = "results"
    /\ pc' = "rows"
    /\ UNCHANGED <<channel, request, received, exc, out, reads, calls, i>>

\* print("\nResults:")
PrintResults ==
    /\ pc = "results"
    /\ out' = Append(out, ResultsHeader)
    /\ pc' = "rows"
    /\ UNCHANGED <<channel, request, received, exc, reads, calls, i>>

\* variant: the relationship branch prints under the node label
RenderRow_RelAsNode(row) ==
    IF HasField(row, "node")
    THEN << Line("[Node]",
                 "ID: " \o row.node.id \o ", Label: " \o row.node.label
                 \o ", Meta: " \o DictRepr(row.node.metadata)) >>
    ELSE IF HasField(row, "relationship")
    THEN << Line("[Node]",
                 "ID: " \o row.relationship.id
                 \o ", Label: " \o row.relationship.label
                 \o ", Meta: " \o DictRepr(row.relationship.metadata)) >>
    ELSE IF HasField(row, "info")
    THEN << Line("[Info]", row.info) >>
    ELSE << >>

\* the if / elif / elif chain of the loop body: the print calls for one row
RenderRow(row) ==
    IF HasField(row, "node")
    THEN << Line("[Node]",
                 "ID: " \o row.node.id \o ", Label: " \o row.node.label
                 \o ", Meta: " \o DictRepr(row.node.metadata)) >>
    ELSE IF HasField(row, "relationship")
    THEN << Line("[Rel]",
                 "ID: " \o row.relationship.id \o ", "
                 \o row.relationship.from_id \o " -> "
                 \o row.relationship.to_id
                 \o ", Label: " \o row.relationship.label
                 \o ", Meta: " \o DictRepr(row.relationship.metadata)) >>
    ELSE IF HasField(row, "info")
    THEN << Line("[Info]", row.info) >>
    ELSE << >>

\* variant: a row with no variant ends the loop (break)
ForRow_BreakOnEmpty ==
    /\ pc = "rows"
    /\ i < Len(response.rows)
    /\ IF response.rows[i + 1].which = "none"
       THEN /\ pc' = "done"
            /\ UNCHANGED <<i, out>>
       ELSE /\ i' = i + 1
            /\ out' = out \o RenderRow(response.rows[i + 1])
            /\ pc' = pc
    /\ reads' = IF i = 0 THEN Append(reads, "rows") ELSE reads
    /\ UNCHANGED <<channel, request, received, exc, calls>>

\* variant: the loop does not advance to the next row
ForRow_Stuck ==
    /\ pc = "rows"
    /\ i < Len(response.rows)
    /\ UNCHANGED vars

\* for row in response.rows: one iteration
ForRow ==
    /\ pc = "rows"
    /\ i < Len(response.rows)
    /\ i' = i + 1
    /\ out' = out \o RenderRow(response.rows[i + 1])
    /\ reads' = IF i = 0 THEN Append(reads, "rows") ELSE reads
    /\ UNCHANGED <<pc, channel, request, received, exc, calls>>

\* for row in response.rows: the iterator is exhausted, run() returns
ForEnd ==
    /\ pc = "rows"
    /\ i = Len(response.rows)
    /\ reads' = IF i = 0 THEN Append(reads, "rows") ELSE reads
    /\ pc' = "done"
    /\ UNCHANGED <<channel, request, received, exc, out, calls, i>>

\* variant: the handler swallows the fault (except grpc.RpcError: pass)
HandleRpcError_Swallow ==
    /\ pc = "except"
    /\ pc' = "done"
    /\ UNCHANGED <<channel, request, received, exc, out, reads, calls, i>>

\* variant: the handler reports the fault and sends the request once more
HandleRpcError_Retry ==
    /\ pc = "except"
    /\ out' = Append(out, Line("RPC failed:", exc.code \o " - " \o exc.details))
    /\ pc' = IF calls < 2 THEN "call" ELSE "done"
    /\ UNCHANGED <<channel, request, received, exc, reads, calls, i>>

\* except grpc.RpcError as e: print(f"RPC failed: {e.code()} - {e.details()}")
HandleRpcError ==
    /\ pc = "except"
    /\ out' = Append(out, Line("RPC failed:", exc.code \o " - " \o exc.details))
    /\ pc' = "done"
    /\ UNCHANGED <<channel, request, received, exc, reads, calls, i>>

Next ==
    \/ Connect
    \/ BuildRequest
    \/ ExecuteReturns
    \/ ExecuteRaises
    \/ CheckError
    \/ PrintAffectedNodes
    \/ PrintAffectedRelationships
    \/ PrintMutated
    \/ PrintResults
    \/ ForRow
    \/ ForEnd
    \/ HandleRpcError

Spec == Init /\ [][Next]_vars

\* run() is straight-line code on one thread: a step that can be taken is taken
FairSpec == Spec /\ WF_vars(Next)

(* ------------------- vocabulary of the properties ---------------------- *)

Returned == Len(received) = 1

Failed == exc # NoException

SemanticError == Returned /\ response.error # ""

Success == Returned /\ response.error = ""

HeaderTags ==
    <<"Affected Nodes:", "Affected Relationships:", "Mutated:", "Results:">>

RowTags == {"[Node]", "[Rel]", "[Info]"}

ResultTags == {HeaderTags[k] : k \in 1..4} \cup RowTags

Tags(lines) == [k \in 1..Len(lines) |-> lines[k].tag]

IsRowLine(l) == l.tag \in RowTags

RowLines == SelectSeq(out, IsRowLine)

HasTag(t) == \E k \in 1..Len(out) : out[k].tag = t

HasResultLine == \E k \in 1..Len(out) : out[k].tag \in ResultTags

VariantTag(w) ==
    CASE w = "node" -> "[Node]"
      [] w = "relationship" -> "[Rel]"
      [] w = "info" -> "[Info]"

\* the tags of the populated rows of rs, in the order of rs
RECURSIVE PopulatedTags(_)
PopulatedTags(rs) ==
    IF Len(rs) = 0 THEN <<>>
    ELSE (IF rs[1].which = "none" THEN <<>> ELSE <<VariantTag(rs[1].which)>>)
         \o PopulatedTags(Tail(rs))

Min(a, b) == IF a < b THEN a ELSE b

(* ----------------------------- properties ------------------------------ *)

\* C1: when the response carries a non-empty error, error is the only
\* response field ever read and the only output is the one Server Error
\* line, whatever rows, affected_* and mutated contain.
C1_ErrorCheckedFirst ==
    /\ (reads # <<>> => reads[1] = "error")
    /\ SemanticError =>
          /\ \A k \in 1..Len(reads) : reads[k] = "error"
          /\ Len(out) <= 1
          /\ \A k \in 1..Len(out) : out[k] = Line("Server Error:", response.error)
          /\ ~HasResultLine
          /\ (pc = "done" => Len(out) = 1)

C1_Witness ==
    /\ pc = "done"
    /\ SemanticError
    /\ Len(response.rows) > 0
    /\ response.affected_nodes > 0
    /\ response.mutated
    /\ Len(out) = 1

\* C2: when Execute raises an RpcError no QueryResponse exists, no response
\* field is read, and the only output is the RPC failed line with the
\* status code and the details.
C2_TransportFault ==
    Failed =>
       /\ received = <<>>
       /\ reads = <<>>
       /\ ~HasTag("Server Error:")
       /\ ~HasResultLine
       /\ out \in {<<>>, <<Line("RPC failed:", exc.code \o " - " \o exc.details)>>}
       /\ (pc = "done" => Len(out) = 1)

C2_Witness ==
    /\ pc = "done"
    /\ Failed
    /\ Len(out) = 1
    /\ out[1].tag = "RPC failed:"

\* C3: on the success path a row with no variant populated yields no
\* output and no error, and the rows after it are still visited and
\* rendered: the row lines printed so far number the populated rows among
\* the rows visited, and the run ends only when all rows were visited.
C3_EmptyRowSkipped ==
    (Success /\ pc \in {"rows", "done"}) =>
       /\ Len(RowLines) =
             Cardinality({k \in 1..i : response.rows[k].which # "none"})
       /\ ~HasTag("Server Error:")
       /\ ~HasTag("RPC failed:")
       /\ ~Failed
       /\ (pc = "done" => i = Len(response.rows))

C3_Witness ==
    /\ pc = "done"
    /\ Success
    /\ Len(response.rows) >= 2
    /\ response.rows[1].which = "none"
    /\ response.rows[2].which # "none"
    /\ Len(RowLines) >= 1

\* C4: on the success path the row lines are, in order, the tags of the
\* populated rows visited so far: at most one line per row, the tag that
\* of the row's variant, the order that of the rows.
C4_RowDispatch ==
    (Success /\ pc \in {"rows", "done"}) =>
       /\ Tags(RowLines) = PopulatedTags(SubSeq(response.rows, 1, i))
       /\ Len(RowLines) <= i

C4_Witness ==
    /\ pc = "done"
    /\ Success
    /\ Len(response.rows) >= 2
    /\ response.rows[1].which = "relationship"
    /\ response.rows[2].which = "node"
    /\ Tags(RowLines) = <<"[Rel]", "[Node]">>

\* C5: a run issues exactly one Execute call and consumes at most one
\* response; nothing is printed before the call has completed, and a run
\* that has ended has made exactly one call.
C5_SingleCall ==
    /\ calls <= 1
    /\ Len(received) <= calls
    /\ (out # <<>> => calls = 1)
    /\ (RowLines # <<>> => Returned)
    /\ (pc \notin {"start", "prepare", "call"} => calls = 1)

C5_Witness ==
    /\ pc = "done"
    /\ calls = 1
    /\ Failed
    /\ out # <<>>

\* C6: the outcomes are disjoint: no output mixes an RPC failed line, a
\* Server Error line and result lines, and a finished run reports exactly
\* the outcome of its call: transport failure, semantic failure or success.
C6_DisjointOutcomes ==
    /\ ~(HasTag("RPC failed:") /\ HasTag("Server Error:"))
    /\ ~(HasTag("RPC failed:") /\ HasResultLine)
    /\ ~(HasTag("Server Error:") /\ HasResultLine)
    /\ ~(Failed /\ Returned)
    /\ pc = "done" =>
          /\ HasTag("RPC failed:") <=> Failed
          /\ HasTag("Server Error:") <=> SemanticError
          /\ HasResultLine <=> Success

C6_Witness ==
    /\ pc = "done"
    /\ SemanticError
    /\ Len(response.rows) = MaxRows
    /\ HasTag("Server Error:")
    /\ ~HasResultLine

\* C7: with an empty error every combination of mutated and the two
\* counts takes the success path: the first three lines report the three
\* values as received, no error line is printed, and all rows are visited.
C7_MutatedConventions ==
    (Success /\ pc \in {"results", "rows", "done"}) =>
       /\ Len(out) >= 3
       /\ out[1] = Line("Affected Nodes:", StrInt(response.affected_nodes))
       /\ out[2] = Line("Affected Relationships:",
                        StrInt(response.affected_relationships))
       /\ out[3] = Line("Mutated:", IF response.mutated THEN "True" ELSE "False")
       /\ ~HasTag("Server Error:")
       /\ ~HasTag("RPC failed:")
       /\ (pc = "done" => i = Len(response.rows) /\ Len(out) >= 4)

C7_Witness ==
    /\ pc = "done"
    /\ Success
    /\ response.mutated
    /\ response.affected_nodes = 0
    /\ response.affected_relationships = 0
    /\ Len(response.rows) > 0
    /\ out[3].text = "True"

\* C8: once built, the request has a non-empty query, an empty params map
\* and log set, and it never changes afterwards; the call is made only
\* with the built request.
C8_RequestShape ==
    /\ [](pc \notin {"start", "prepare"} =>
             /\ request.query # ""
             /\ Len(request.params) = 0
             /\ request.log = TRUE)
    /\ [][pc \notin {"start", "prepare"} => request' = request]_vars

C8_Witness ==
    /\ pc = "done"
    /\ calls = 1
    /\ request.log
    /\ request.query # ""

\* C9: on the success path the output starts with Affected Nodes,
\* Affected Relationships, Mutated and the Results header, in this order,
\* every later line is a row line, and with empty rows the finished run
\* has printed exactly the four header lines.
C9_HeaderOrder ==
    Success =>
       /\ \A k \in 1..Min(Len(out), 4) : out[k].tag = HeaderTags[k]
       /\ \A k \in 5..Len(out) : out[k].tag \in RowTags
       /\ (pc \in {"rows", "done"} => Len(out) >= 4)
       /\ (pc = "done" /\ Len(response.rows) = 0 => Len(out) = 4)

C9_Witness ==
    /\ pc = "done"
    /\ Success
    /\ Len(response.rows) = 0
    /\ response.affected_nodes = 1
    /\ Tags(out) = HeaderTags

====
